---- MODULE Spec2Model ----
(***************************************************************************)
(* BPH-PCA multimodal MRI -> nnU-Net v2 converter                          *)
(* (script/convert_bph_pca_to_nnunet.py, class BPHPCAToNnUNetConverter).   *)
(*                                                                         *)
(* A run handles the cases of the categories BPH and PCA one after the     *)
(* other: _validate_case_completeness, _combine_modalities, _process_label *)
(* and the append to processed_cases, then _create_dataset_json.           *)
(*                                                                         *)
(* A volume is a record [shape, vox]: shape is a 3-tuple of extents and    *)
(* vox the flat voxel buffer (Len(vox) = product of the extents).  Image   *)
(* voxels are integers; the label voxels of a source file are counted in   *)
(* halves (value v stands for v/2) so that fractional labels exist.        *)
(***************************************************************************)
EXTENDS Integers, Sequences, FiniteSets, TLC

(***************************************************************************)
(* Bounds of the model                                                     *)
(***************************************************************************)
\* case ids per category are 1..MaxCaseId
MaxCaseId == 1
\* a case misses at most this many of the five modality files
MaxMissing == 2
\* at most this many modality files of a case deviate from
\* "reference shape, readable, resampling succeeds"
MaxFaults == 1

(***************************************************************************)
(* Program constants                                                       *)
(***************************************************************************)
\* dataset_id: int = 1
dataset_id == 1
\* float32 has a 24-bit significand: integers up to 2^24 are exact
TwoPow24 == 16777216
\* the range of np.uint8
Uint8Mod == 256
\* the value of 0/0 in a float array (enhanced.max() - enhanced.min() = 0)
NaN == -1

Modes == {"core_4", "zero_fill", "similarity_fill", "strict_5"}

\* the five modality directories of a category tree, in ModalityMap order
AllModalities == <<"ADC", "DWI", "T2 fs", "T2 not fs", "gaoqing-T2">>

Categories == <<"BPH", "PCA">>

Range(s) == {s[i] : i \in 1..Len(s)}

\* list(self.modality_mapping.keys()) for a processing mode
modality_mapping(mode) ==
    IF mode = "core_4" THEN SubSeq(AllModalities, 1, 4) ELSE AllModalities

\* mutant: the zero_fill branch of __init__ leaves zero_fill_missing False
Mut_zero_fill_missing(mode) == mode = "similarity_fill"

zero_fill_missing(mode) == mode \in {"zero_fill", "similarity_fill"}

similarity_fill(mode) == mode = "similarity_fill"

min_modalities(mode) == IF mode = "strict_5" THEN 5 ELSE 4

label_mapping(category) == IF category = "BPH" THEN 1 ELSE 2

core_modalities == {"ADC", "DWI", "T2 fs", "T2 not fs"}

(***************************************************************************)
(* Volumes                                                                 *)
(***************************************************************************)
ShapeSet == {<<1, 1, 1>>, <<2, 1, 1>>}

Size(shape) == shape[1] * shape[2] * shape[3]

\* np.zeros(shape, dtype=np.float32)
Zeros(shape) == [i \in 1..Size(shape) |-> 0]

ModalityIndex(m) == CHOOSE k \in 1..Len(AllModalities) : AllModalities[k] = m

\* the voxel value the file of each modality holds (ModalityMap order): every
\* file is a uniform volume, the files of different modalities hold different
\* values, and two of them hold a value that float32 cannot represent
SrcVoxels == <<1, 5, TwoPow24 + 1, 9, TwoPow24 + 5>>

\* img.get_fdata() of the file of modality m
SrcData(m, shape) ==
    [i \in 1..Size(shape) |-> SrcVoxels[ModalityIndex(m)]]

\* astype(np.float32) of one non-negative integer below 2^25: exact up to
\* 2^24, above it rounded to the nearest even integer, ties to the one whose
\* significand is even
F32(v) ==
    IF v <= TwoPow24 THEN v
    ELSE CASE v % 4 = 1 -> v - 1
           [] v % 4 = 3 -> v + 1
           [] OTHER     -> v

AsFloat32(vox) == [i \in 1..Len(vox) |-> F32(vox[i])]

\* the value a function returns for Python's None
None == [shape |-> <<>>, vox |-> <<>>]

\* position of voxel (x, y, z), counted from 0, in the flat buffer of a
\* volume of the given shape (C order)
Flat(shape, x, y, z) == (x * shape[2] + y) * shape[3] + z + 1

\* _adjust_shape: every axis longer than the target is cut to its first
\* target_shape[i] entries, every shorter axis is padded with zeros at its end
_adjust_shape(data, target_shape) ==
    [shape |-> target_shape,
     vox |-> [n \in 1..Size(target_shape) |->
        LET z == (n - 1) % target_shape[3]
            y == ((n - 1) \div target_shape[3]) % target_shape[2]
            x == (n - 1) \div (target_shape[3] * target_shape[2])
        IN  IF x < data.shape[1] /\ y < data.shape[2] /\ z < data.shape[3]
            THEN data.vox[Flat(data.shape, x, y, z)]
            ELSE 0]]

IsUniform(vox) == \A i \in 1..Len(vox) : vox[i] = vox[1]

\* the coordinates (x, y, z), counted from 0, of the n-th voxel of the flat
\* buffer of a volume of the given shape
Coord(shape, n) ==
    <<(n - 1) \div (shape[3] * shape[2]),
      ((n - 1) \div shape[3]) % shape[2],
      (n - 1) % shape[3]>>

\* the voxel of a volume at coordinates c
AtCoord(data, c) == data.vox[Flat(data.shape, c[1], c[2], c[3])]

\* the value of a volume at position num / den of axis a (the other
\* coordinates are those of c): the voxel of a grid point, and between two
\* grid points their mean weighted by the distances.  The mean is computed
\* with integer division; it is exact for the volumes of the model (see
\* ZoomExact)
Interpolate(data, a, c, num, den) ==
    IF num % den = 0
    THEN AtCoord(data, [c EXCEPT ![a] = num \div den])
    ELSE (AtCoord(data, [c EXCEPT ![a] = num \div den]) * (den - (num % den))
            + AtCoord(data, [c EXCEPT ![a] = (num \div den) + 1])
                * (num % den)) \div den

\* order-1 interpolation along axis a to extent n, as ndimage.zoom does it:
\* output index o reads the input at o * (in - 1) / (n - 1), and at 0 when
\* n = 1
ZoomVoxel(data, a, n, c) ==
    IF n > 1
    THEN Interpolate(data, a, c, c[a] * (data.shape[a] - 1), n - 1)
    ELSE AtCoord(data, [c EXCEPT ![a] = 0])

ZoomShape(shape, a, n) == [shape EXCEPT ![a] = n]

ZoomAxis(data, a, n) ==
    [shape |-> ZoomShape(data.shape, a, n),
     vox |-> [k \in 1..Size(ZoomShape(data.shape, a, n)) |->
                ZoomVoxel(data, a, n,
                          Coord(ZoomShape(data.shape, a, n), k))]]

\* scipy.ndimage.zoom(image_data, zoom_factors, order=1, mode='nearest') with
\* zoom_factors[i] = target_shape[i] / image_data.shape[i]: the output extent
\* round(shape[i] * zoom_factors[i]) is target_shape[i], and order-1
\* interpolation in three dimensions is the interpolation along one axis
\* after the other
Zoom(image_data, target_shape) ==
    LET along1 == {ZoomAxis(d, 1, target_shape[1]) : d \in {image_data}}
        along2 == {ZoomAxis(d, 2, target_shape[2]) : d \in along1}
        along3 == {ZoomAxis(d, 3, target_shape[3]) : d \in along2}
    IN  CHOOSE resampled_data \in along3 : TRUE

\* lines 141-143: a zoom result of another shape than the target is cut or
\* padded
Adjusted(resampled_data, target_shape) ==
    IF resampled_data.shape # target_shape
    THEN _adjust_shape(resampled_data, target_shape)
    ELSE resampled_data

\* resampled_data.astype(np.float32)
VolAsFloat32(data) == [shape |-> data.shape, vox |-> AsFloat32(data.vox)]

\* mutant: the method returns image_data whatever its shape is
Mut_resample_image_no_zoom(image_data, target_shape, zoom_result) ==
    image_data

\* mutant: the shape test of lines 128-129 is gone, zoom is always called
Mut_resample_image_always_zoom(image_data, target_shape, zoom_result) ==
    IF zoom_result = "raises" THEN None
    ELSE VolAsFloat32(Adjusted(Zoom(image_data, target_shape), target_shape))

\* mutant: the return of line 145 is missing, the try block ends without a
\* value
Mut_resample_image_no_return(image_data, target_shape, zoom_result) ==
    IF image_data.shape = target_shape THEN image_data ELSE None

\* _resample_image; zoom_result tells whether the zoom call returns or raises
_resample_image(image_data, target_shape, zoom_result) ==
    IF image_data.shape = target_shape THEN image_data
    ELSE IF zoom_result = "raises" THEN None
    ELSE VolAsFloat32(Adjusted(Zoom(image_data, target_shape), target_shape))

SeqMin(vox) == CHOOSE v \in Range(vox) : \A w \in Range(vox) : v <= w
SeqMax(vox) == CHOOSE v \in Range(vox) : \A w \in Range(vox) : v >= w
Min2(a, b) == IF a <= b THEN a ELSE b
Max2(a, b) == IF a >= b THEN a ELSE b

\* _similarity_fill_gaoqing_t2.  base_estimate = 0.6*A + 0.4*B is kept times
\* ten.  When the blend is uniform, smoothing and the percentile clip leave it
\* uniform, enhanced.max() - enhanced.min() is 0 and enhanced_norm is 0/0 in
\* every voxel: numpy does not raise, and NaN passes the convolution, the
\* final blend and np.clip unchanged.  Otherwise every voxel ends inside
\* [original_min, original_max] by the final np.clip; the filters are not
\* evaluated and the voxel is the blend clipped to that envelope.
_similarity_fill_gaoqing_t2(t2_fs_data, t2_not_fs_data) ==
    LET base10 == [i \in 1..Len(t2_fs_data.vox) |->
                     6 * t2_fs_data.vox[i] + 4 * t2_not_fs_data.vox[i]]
        original_min == Min2(SeqMin(t2_fs_data.vox), SeqMin(t2_not_fs_data.vox))
        original_max == Max2(SeqMax(t2_fs_data.vox), SeqMax(t2_not_fs_data.vox))
    IN  [shape |-> t2_fs_data.shape,
         vox |-> IF IsUniform(base10)
                 THEN [i \in 1..Len(base10) |-> NaN]
                 ELSE [i \in 1..Len(base10) |->
                        F32(Max2(original_min,
                                 Min2(original_max, base10[i] \div 10)))]]

(***************************************************************************)
(* What a run finds in the source tree                                     *)
(***************************************************************************)
\* what reading one modality file yields: the shape in its header, whether
\* nib.load or get_fdata raises, and whether zoom raises when the volume has
\* to be resampled
ObsOk == [shape |-> <<1, 1, 1>>, read |-> "ok", zoom |-> "ok"]

ObsSet == [shape : ShapeSet, read : {"ok", "load_raises", "data_raises"},
           zoom : {"ok", "raises"}]

\* one representative per outcome: a file that cannot be opened has no shape,
\* a file whose data cannot be read is never resampled
ObsCanonical(o) ==
    /\ o.read = "load_raises" => o.shape = ObsOk.shape
    /\ o.read # "ok" => o.zoom = "ok"

\* the observations that deviate from ObsOk
Deviations == {d \in ObsSet : ObsCanonical(d) /\ d # ObsOk}

\* the observations of the files of one case: the files that do not exist
\* are not read, and at most MaxFaults of the others deviate from ObsOk
CaseObs(modalities) ==
    UNION {{[m \in Range(AllModalities) |-> IF m \in F THEN d[m] ELSE ObsOk] :
                d \in [F -> Deviations]} :
            F \in {G \in SUBSET modalities : Cardinality(G) <= MaxFaults}}

\* the sets of modality files a discovered case may have
ExistSets ==
    {S \in SUBSET Range(AllModalities) :
        Len(AllModalities) - Cardinality(S) <= MaxMissing}

(***************************************************************************)
(* _check_modalities_for_case and _validate_case_completeness              *)
(***************************************************************************)
\* the keys of available_modalities: the mapped modalities whose file exists
_check_modalities_for_case(mode, exists) ==
    {m \in Range(modality_mapping(mode)) : m \in exists}

\* mutant: the label file is not checked
Mut_validate_no_label_check(mode, exists, label_exists) ==
    LET modalities == _check_modalities_for_case(mode, exists)
    IN  IF mode = "strict_5"
        THEN IF Range(modality_mapping(mode)) \ modalities # {}
             THEN [is_valid |-> FALSE, modalities |-> {}]
             ELSE [is_valid |-> TRUE, modalities |-> modalities]
        ELSE IF Cardinality(modalities \cap core_modalities) < 4
             THEN [is_valid |-> FALSE, modalities |-> {}]
             ELSE [is_valid |-> TRUE, modalities |-> modalities]

\* mutant: strict_5 is validated by the rule of the other modes
Mut_validate_strict_as_core(mode, exists, label_exists) ==
    LET modalities == _check_modalities_for_case(mode, exists)
    IN  IF ~label_exists THEN [is_valid |-> FALSE, modalities |-> {}]
        ELSE IF Cardinality(modalities \cap core_modalities) < 4
             THEN [is_valid |-> FALSE, modalities |-> {}]
             ELSE [is_valid |-> TRUE, modalities |-> modalities]

\* mutant: three of the four core modalities are enough
Mut_validate_three_core(mode, exists, label_exists) ==
    LET modalities == _check_modalities_for_case(mode, exists)
    IN  IF ~label_exists THEN [is_valid |-> FALSE, modalities |-> {}]
        ELSE IF mode = "strict_5"
        THEN IF Range(modality_mapping(mode)) \ modalities # {}
             THEN [is_valid |-> FALSE, modalities |-> {}]
             ELSE [is_valid |-> TRUE, modalities |-> modalities]
        ELSE IF Cardinality(modalities \cap core_modalities) < 3
             THEN [is_valid |-> FALSE, modalities |-> {}]
             ELSE [is_valid |-> TRUE, modalities |-> modalities]

\* mutant: a label is all a case needs to be valid
Mut_validate_label_only(mode, exists, label_exists) ==
    LET modalities == _check_modalities_for_case(mode, exists)
    IN  IF ~label_exists THEN [is_valid |-> FALSE, modalities |-> {}]
        ELSE [is_valid |-> TRUE, modalities |-> modalities]

\* (is_valid, modalities) of _validate_case_completeness
_validate_case_completeness(mode, exists, label_exists) ==
    LET modalities == _check_modalities_for_case(mode, exists)
    IN  IF ~label_exists THEN [is_valid |-> FALSE, modalities |-> {}]
        ELSE IF mode = "strict_5"
        THEN IF Range(modality_mapping(mode)) \ modalities # {}
             THEN [is_valid |-> FALSE, modalities |-> {}]
             ELSE [is_valid |-> TRUE, modalities |-> modalities]
        ELSE IF Cardinality(modalities \cap core_modalities) < 4
             THEN [is_valid |-> FALSE, modalities |-> {}]
             ELSE [is_valid |-> TRUE, modalities |-> modalities]

(***************************************************************************)
(* _combine_modalities                                                     *)
(***************************************************************************)
\* mutant: resampling is switched off
Mut_enable_resampling == FALSE

\* self.enable_resampling = True
enable_resampling == TRUE

\* mutant: every channel is loaded from the file of the first modality
Mut_LoadData(m, o) ==
    [shape |-> o[m].shape, vox |-> AsFloat32(SrcData("ADC", o[m].shape))]

\* img.get_fdata().astype(np.float32) of the file of modality m
LoadData(m, o) ==
    [shape |-> o[m].shape, vox |-> AsFloat32(SrcData(m, o[m].shape))]

\* lines 332-341: what the loop does with the answer of _resample_image
AfterResample(mode, resampled_data, ref_shape) ==
    IF resampled_data # None
    THEN [skip |-> FALSE, data |-> resampled_data.vox, fill |-> FALSE]
    ELSE IF zero_fill_missing(mode)
         THEN [skip |-> FALSE, data |-> Zeros(ref_shape), fill |-> TRUE]
         ELSE [skip |-> TRUE, data |-> Zeros(ref_shape), fill |-> FALSE]

\* the body of the loop for a modality that is in modalities (lines 320-362).
\* skip: the iteration ends with continue; fill: the modality is appended to
\* missing_modalities
PresentChannel(mode, m, o, ref_shape) ==
    LET zero  == [skip |-> FALSE, data |-> Zeros(ref_shape), fill |-> TRUE]
        leave == [skip |-> TRUE, data |-> Zeros(ref_shape), fill |-> FALSE]
    IN  IF o[m].read # "ok"
        THEN \* except Exception
             IF zero_fill_missing(mode) THEN zero ELSE leave
        ELSE LET data == LoadData(m, o)
             IN  IF data.shape # ref_shape
                 THEN IF enable_resampling
                      THEN AfterResample(mode,
                              _resample_image(data, ref_shape, o[m].zoom),
                              ref_shape)
                      ELSE IF zero_fill_missing(mode) THEN zero ELSE leave
                 ELSE [skip |-> FALSE, data |-> data.vox, fill |-> FALSE]

\* mutant: the blend is never called, the channel is filled with zeros
Mut_FillFrom(t2_fs_data, t2_not_fs_data, ref_shape) ==
    [skip |-> FALSE, data |-> Zeros(ref_shape), fill |-> TRUE]

\* lines 384-392: the blend of the two resampled volumes; None in place of a
\* volume raises in the blend, and the exception ends in the zero fill
FillFrom(t2_fs_data, t2_not_fs_data, ref_shape) ==
    IF t2_fs_data = None \/ t2_not_fs_data = None
    THEN [skip |-> FALSE, data |-> Zeros(ref_shape), fill |-> TRUE]
    ELSE [skip |-> FALSE,
          data |-> _similarity_fill_gaoqing_t2(t2_fs_data,
                                               t2_not_fs_data).vox,
          fill |-> FALSE]

\* the similarity fill of a missing gaoqing-T2 (lines 369-392): any exception
\* of loading, resampling (None handed on raises in the blend) or blending
\* ends in the zero fill
SimilarityChannel(o, ref_shape) ==
    IF o["T2 fs"].read # "ok" \/ o["T2 not fs"].read # "ok"
    THEN [skip |-> FALSE, data |-> Zeros(ref_shape), fill |-> TRUE]
    ELSE FillFrom(_resample_image(LoadData("T2 fs", o), ref_shape,
                                  o["T2 fs"].zoom),
                  _resample_image(LoadData("T2 not fs", o), ref_shape,
                                  o["T2 not fs"].zoom),
                  ref_shape)

\* the body of the loop for a modality that is not in modalities (lines
\* 363-404): without zero fill nothing is written and nothing is counted
MissingChannel(mode, m, modalities, o, ref_shape) ==
    LET zero == [skip |-> FALSE, data |-> Zeros(ref_shape), fill |-> TRUE]
    IN  IF zero_fill_missing(mode)
        THEN IF similarity_fill(mode) /\ m = "gaoqing-T2"
             THEN IF "T2 fs" \in modalities /\ "T2 not fs" \in modalities
                  THEN SimilarityChannel(o, ref_shape)
                  ELSE zero
             ELSE zero
        ELSE [skip |-> TRUE, data |-> Zeros(ref_shape), fill |-> FALSE]

\* the for loop of lines 319-404 from index i on; acc holds combined_data
\* (one buffer per channel), valid_channels and missing_modalities
RECURSIVE CombineLoop(_, _, _, _, _, _, _)
CombineLoop(i, target_modalities, mode, modalities, o, ref_shape, acc) ==
    IF i > Len(target_modalities) THEN acc
    ELSE LET modality == target_modalities[i]
             body == {IF modality \in modalities
                      THEN PresentChannel(mode, modality, o, ref_shape)
                      ELSE MissingChannel(mode, modality, modalities, o,
                                          ref_shape)}
             next == {IF r.skip THEN a
                      ELSE [combined_data |->
                                [a.combined_data EXCEPT ![i] = r.data],
                            valid_channels |-> a.valid_channels + 1,
                            missing_modalities |->
                                IF r.fill
                                THEN Append(a.missing_modalities, modality)
                                ELSE a.missing_modalities] :
                      r \in body, a \in {acc}}
         IN  CHOOSE result \in
                 {CombineLoop(i + 1, target_modalities, mode, modalities, o,
                              ref_shape, n) : n \in next} : TRUE

\* combined_data[..., :valid_channels]
Truncate(combined_data, valid_channels) ==
    SubSeq(combined_data, 1, valid_channels)

\* target_modalities of lines 288-295
TargetModalities(mode, modalities) ==
    IF zero_fill_missing(mode) THEN modality_mapping(mode)
    ELSE SelectSeq(modality_mapping(mode), LAMBDA m : m \in modalities)

\* a reference that is the last available modality instead of the first
Mut_ReferenceModality_last(target_modalities, modalities) ==
    IF \E i \in 1..Len(target_modalities) : target_modalities[i] \in modalities
    THEN target_modalities[
            CHOOSE i \in 1..Len(target_modalities) :
                /\ target_modalities[i] \in modalities
                /\ \A j \in (i + 1)..Len(target_modalities) :
                        target_modalities[j] \notin modalities]
    ELSE ""

\* reference_modality of lines 301-305; "" when there is none
ReferenceModality(target_modalities, modalities) ==
    IF \E i \in 1..Len(target_modalities) : target_modalities[i] \in modalities
    THEN target_modalities[
            CHOOSE i \in 1..Len(target_modalities) :
                /\ target_modalities[i] \in modalities
                /\ \A j \in 1..(i - 1) : target_modalities[j] \notin modalities]
    ELSE ""

\* _combine_modalities up to nib.save: raised tells that an exception leaves
\* the method; otherwise shape, channels (one voxel buffer per channel) and
\* affine (the name of the modality whose affine is used) are the Nifti1Image
\* that is saved
_combine_modalities(mode, modalities, o) ==
    LET target_modalities == TargetModalities(mode, modalities)
        num_channels == Len(target_modalities)
        reference_modality == ReferenceModality(target_modalities, modalities)
        failed == [raised |-> TRUE, shape |-> <<>>, channels |-> <<>>,
                   affine |-> "", missing_modalities |-> <<>>]
    IN  IF target_modalities = <<>> THEN failed
        ELSE IF reference_modality = "" THEN failed
        ELSE IF o[reference_modality].read = "load_raises" THEN failed
        ELSE LET ref_shape == o[reference_modality].shape
                 loop == {CombineLoop(1, target_modalities, mode, modalities,
                            o, ref_shape,
                            [combined_data |->
                                [k \in 1..num_channels |-> Zeros(ref_shape)],
                             valid_channels |-> 0,
                             missing_modalities |-> <<>>])}
             IN  CHOOSE saved \in
                   {IF acc.valid_channels = 0 THEN failed
                    ELSE [raised |-> FALSE,
                          shape |-> ref_shape,
                          channels |->
                              IF ~zero_fill_missing(mode)
                                 /\ acc.valid_channels < num_channels
                              THEN Truncate(acc.combined_data,
                                            acc.valid_channels)
                              ELSE acc.combined_data,
                          affine |-> reference_modality,
                          missing_modalities |-> acc.missing_modalities] :
                    acc \in loop} : TRUE

\* what one pass of the loop body does for modality m
LoopBody(mode, m, modalities, o, ref_shape) ==
    IF m \in modalities
    THEN PresentChannel(mode, m, o, ref_shape)
    ELSE MissingChannel(mode, m, modalities, o, ref_shape)

\* the modalities of the ModalityMap whose pass of the loop wrote the data of
\* the file, resampled data or synthesized data into combined_data
Contributed(mode, modalities, o, ref_shape) ==
    SelectSeq(modality_mapping(mode),
              LAMBDA m : LET r == LoopBody(mode, m, modalities, o, ref_shape)
                         IN  ~r.skip /\ ~r.fill)

\* the modalities of the case whose pass of the loop ended with continue
Skipped(mode, modalities, o, ref_shape) ==
    SelectSeq(modality_mapping(mode),
              LAMBDA m : /\ m \in modalities
                         /\ LoopBody(mode, m, modalities, o, ref_shape).skip)

\* f"{case_id}_{self.dataset_id:03d}.nii.gz"
OutputFilename(case_id) == <<case_id, dataset_id>>

(***************************************************************************)
(* _process_label                                                          *)
(***************************************************************************)
\* the voxel values of a label file, in halves: 0, 0.5, 1 and 256
LabelVals == {0, 1, 2, 2 * Uint8Mod}

LabelVolumes ==
    UNION {{[shape |-> sh, vox |-> x] : x \in [1..Size(sh) -> LabelVals]} :
            sh \in ShapeSet}

\* what a float -> uint8 cast of a value outside 0..255 gives is undefined in
\* C: an x86 build keeps the low byte, an ARM build saturates
CastBuilds == {"wrap", "saturate"}

\* astype(np.uint8) of the float v/2: the fraction is cut off towards zero
AsUint8(v, cast) ==
    LET t == IF v >= 0 THEN v \div 2 ELSE 0 - ((0 - v) \div 2)
    IN  IF 0 <= t /\ t < Uint8Mod THEN t
        ELSE IF cast = "wrap" THEN t % Uint8Mod
        ELSE IF t < 0 THEN 0 ELSE Uint8Mod - 1

\* lines 439-445: label_data = get_fdata().astype(np.uint8), then
\* np.where(label_data > 0, label_value, 0)
MapLabel(label_src, category, cast) ==
    [shape |-> label_src.shape,
     vox |-> [i \in 1..Len(label_src.vox) |->
                IF AsUint8(label_src.vox[i], cast) > 0
                THEN label_mapping(category) ELSE 0]]

(***************************************************************************)
(* _create_dataset_json                                                    *)
(***************************************************************************)
\* the place of a modality name in Python's string order: upper case letters
\* come before lower case ones, and "T2 fs" before "T2 not fs"
SortRank(m) ==
    CASE m = "ADC" -> 1
      [] m = "DWI" -> 2
      [] m = "T2 fs" -> 3
      [] m = "T2 not fs" -> 4
      [] m = "gaoqing-T2" -> 5

RECURSIVE SortedSeq(_)
\* sorted(all_modalities)
SortedSeq(S) ==
    IF S = {} THEN <<>>
    ELSE LET m == CHOOSE x \in S : \A y \in S : SortRank(x) <= SortRank(y)
         IN  <<m>> \o SortedSeq(S \ {m})

\* mutant: numTraining counts every case the run discovered
Mut_create_dataset_json(cases) ==
    LET all_modalities == UNION {Range(cases[i].modalities) : i \in 1..Len(cases)}
    IN  [written |-> TRUE,
         channel_names |-> SortedSeq(all_modalities),
         numTraining |-> Len(Categories) * MaxCaseId]

_create_dataset_json(cases) ==
    LET all_modalities == UNION {Range(cases[i].modalities) : i \in 1..Len(cases)}
    IN  [written |-> TRUE,
         channel_names |-> SortedSeq(all_modalities),
         numTraining |-> Len(cases)]

(***************************************************************************)
(* The run: convert()                                                      *)
(***************************************************************************)
VARIABLES
    processing_mode,  \* self.processing_mode
    pc,               \* where convert() stands
    cursor,           \* index in Cases of the case the loop is at
    cur,              \* the case of this iteration and the validator's answer
    obs_in,           \* what _combine_modalities read from the modality files
    combined_img,     \* the Nifti1Image _combine_modalities saves
    image_file,       \* image_filename and what the file written holds
    label_in,         \* the label file _process_label read
    label_file,       \* label_filename and the label volume written
    imagesTr,         \* imagesTr: file name -> the cases that wrote the file
    labelsTr,         \* labelsTr: file name -> the cases that wrote the file
    processed_cases,  \* the list processed_cases
    dataset_json,     \* dataset.json
    rc_pc,            \* where a caller of _resample_image stands
    rc_volume,        \* the array the caller hands to _resample_image
    rc_target,        \* the target shape of the call
    rc_zoomed,        \* how the calls of zoom made so far ended
    rc_result,        \* what _resample_image returned
    rc_back,          \* what resampling rc_result to the first shape returned
    absent_dirs,      \* the categories whose directory convert() found absent
    fx_pc,            \* where a caller of fix_dataset_json stands
    fx_input,         \* dataset.json as it was before the first call
    fx_before,        \* dataset.json as it was before the last call
    dataset_info,     \* dataset.json as fix_dataset_json holds it
    lg_pc,            \* where the comparison of the two acceptance rules stands
    lg_case,          \* the files of the case both rules are given
    lg_is_valid,      \* is_valid of _validate_case_completeness
    lg_accepted       \* whether the legacy converter adds the case

run_vars == <<processing_mode, pc, cursor, cur, obs_in, combined_img,
              image_file, label_in, label_file, imagesTr, labelsTr,
              processed_cases, dataset_json, absent_dirs>>

rc_vars == <<rc_pc, rc_volume, rc_target, rc_zoomed, rc_result, rc_back>>

fx_vars == <<fx_pc, fx_input, fx_before, dataset_info>>

lg_vars == <<lg_pc, lg_case, lg_is_valid, lg_accepted>>

vars == <<run_vars, rc_vars, fx_vars, lg_vars>>

CaseIds == 1..MaxCaseId

\* the order of the two loops: for category in ['BPH', 'PCA'], then the
\* sorted case ids of the category
Cases ==
    [n \in 1..(Len(Categories) * MaxCaseId) |->
        <<Categories[((n - 1) \div MaxCaseId) + 1], ((n - 1) % MaxCaseId) + 1>>]

FileNames == {OutputFilename(id) : id \in CaseIds}

NoCase == [category |-> "", case_id |-> 0, exists |-> {}, label_exists |-> FALSE,
           is_valid |-> FALSE, modalities |-> {}]
NoObs == [m \in Range(AllModalities) |-> ObsOk]
NoImage == [shape |-> <<>>, channels |-> <<>>, affine |-> ""]
NoImageFile == [name |-> <<>>, shape |-> <<>>, num_channels |-> 0,
                contributed |-> <<>>, skipped |-> <<>>]
NoLabelIn == [vol |-> None, cast |-> ""]
NoLabelFile == [name |-> <<>>, vol |-> None]

\* _resample_image is not being called on its own
RcIdle ==
    /\ rc_pc = "idle"
    /\ rc_volume = None
    /\ rc_target = <<>>
    /\ rc_zoomed = <<>>
    /\ rc_result = None
    /\ rc_back = None

\* fix_dataset_json is not being called
FxIdle ==
    /\ fx_pc = "idle"
    /\ fx_input = [training |-> <<>>, numTraining |-> 0]
    /\ fx_before = [training |-> <<>>, numTraining |-> 0]
    /\ dataset_info = [training |-> <<>>, numTraining |-> 0]

\* no case is being given to the two acceptance rules
LgNoCase == [mode |-> "", exists |-> {}, label_exists |-> FALSE,
             unreadable |-> {}, label_loads |-> FALSE]

LgIdle ==
    /\ lg_pc = "idle"
    /\ lg_case = LgNoCase
    /\ lg_is_valid = FALSE
    /\ lg_accepted = FALSE

\* mutant: a step of the run sets the mode back to the default
Mut_config_reset == processing_mode' = "core_4"

\* no step of convert() assigns self.processing_mode, from which __init__
\* derived the modality map, the fill flags, the minimum count and the codes
config_unchanged == processing_mode' = processing_mode

Init ==
    /\ RcIdle
    /\ FxIdle
    /\ LgIdle
    /\ absent_dirs = {}
    /\ processing_mode \in Modes
    /\ pc = "loop"
    /\ cursor = 1
    /\ cur = NoCase
    /\ obs_in = NoObs
    /\ combined_img = NoImage
    /\ image_file = NoImageFile
    /\ label_in = NoLabelIn
    /\ label_file = NoLabelFile
    /\ imagesTr = [f \in FileNames |-> {}]
    /\ labelsTr = [f \in FileNames |-> {}]
    /\ processed_cases = <<>>
    /\ dataset_json = [written |-> FALSE, channel_names |-> <<>>, numTraining |-> 0]

\* whether the loop stands at the first case of a category, where line 509
\* asks category_dir.exists()
AtCategoryStart == cursor <= Len(Cases) /\ (cursor - 1) % MaxCaseId = 0

\* lines 509-511: the directory of the category does not exist; the category
\* is reported and skipped (continue), the run goes on
SkipCategory ==
    /\ pc = "loop"
    /\ AtCategoryStart
    /\ absent_dirs' = absent_dirs \cup {Cases[cursor][1]}
    /\ cursor' = cursor + MaxCaseId
    /\ config_unchanged
    /\ UNCHANGED <<rc_vars, fx_vars, lg_vars, pc, cur, obs_in, combined_img, image_file,
                   label_in, label_file, imagesTr, labelsTr, processed_cases,
                   dataset_json>>

\* lines 524-526: the next case of the loop is validated
ValidateCase ==
    /\ pc = "loop"
    /\ cursor <= Len(Cases)
    /\ \E exists \in ExistSets, label_exists \in BOOLEAN :
          LET v == _validate_case_completeness(processing_mode, exists,
                                               label_exists)
          IN  /\ cur' = [category |-> Cases[cursor][1],
                         case_id |-> Cases[cursor][2],
                         exists |-> exists, label_exists |-> label_exists,
                         is_valid |-> v.is_valid, modalities |-> v.modalities]
              /\ pc' = IF v.is_valid THEN "valid" ELSE "rejected"
    /\ config_unchanged
    /\ UNCHANGED <<rc_vars, fx_vars, lg_vars, absent_dirs, cursor, obs_in, combined_img, image_file,
                   label_in, label_file, imagesTr, labelsTr, processed_cases,
                   dataset_json>>

\* mutant: the loop stays at the case it has just finished
Mut_EndIteration_stay ==
    /\ pc' = "loop"
    /\ cursor' = cursor
    /\ cur' = NoCase
    /\ obs_in' = NoObs
    /\ combined_img' = NoImage
    /\ image_file' = NoImageFile
    /\ label_in' = NoLabelIn
    /\ label_file' = NoLabelFile

\* the end of an iteration: the loop moves to the next case, the variables of
\* the iteration are bound anew there
EndIteration ==
    /\ pc' = "loop"
    /\ cursor' = cursor + 1
    /\ cur' = NoCase
    /\ obs_in' = NoObs
    /\ combined_img' = NoImage
    /\ image_file' = NoImageFile
    /\ label_in' = NoLabelIn
    /\ label_file' = NoLabelFile

\* lines 528-529: a case that is not valid is skipped (continue)
SkipCase ==
    /\ pc = "rejected"
    /\ EndIteration
    /\ config_unchanged
    /\ UNCHANGED <<rc_vars, fx_vars, lg_vars, absent_dirs, imagesTr, labelsTr, processed_cases,
                   dataset_json>>

\* line 533: _combine_modalities(modalities, case_id), up to nib.save; an
\* exception leaves the try block
CombineModalities ==
    /\ pc = "valid"
    /\ \E o \in CaseObs(cur.modalities) :
        \E r \in {_combine_modalities(processing_mode, cur.modalities, o)} :
          LET output_filename == OutputFilename(cur.case_id)
          IN  /\ obs_in' = o
              /\ IF r.raised
                 THEN /\ pc' = "raised"
                      /\ UNCHANGED <<combined_img, image_file, imagesTr>>
                 ELSE /\ pc' = "combined"
                      /\ combined_img' = [shape |-> r.shape,
                                          channels |-> r.channels,
                                          affine |-> r.affine]
                      /\ image_file' =
                            [name |-> output_filename,
                             shape |-> r.shape,
                             num_channels |-> Len(r.channels),
                             contributed |->
                                 Contributed(processing_mode, cur.modalities,
                                             o, r.shape),
                             skipped |->
                                 Skipped(processing_mode, cur.modalities,
                                         o, r.shape)]
                      /\ imagesTr' =
                            [imagesTr EXCEPT ![output_filename] =
                                @ \cup {<<cur.category, cur.case_id>>}]
    /\ config_unchanged
    /\ UNCHANGED <<rc_vars, fx_vars, lg_vars, absent_dirs, cursor, cur, label_in, label_file,
                   labelsTr, processed_cases, dataset_json>>

\* lines 545-547: the exception of this case is caught and reported, the loop
\* goes on
HandleException ==
    /\ pc = "raised"
    /\ EndIteration
    /\ config_unchanged
    /\ UNCHANGED <<rc_vars, fx_vars, lg_vars, absent_dirs, imagesTr, labelsTr, processed_cases,
                   dataset_json>>

\* line 428 and the assignment of line 533: _combine_modalities returns the
\* file name, its local variables are gone
ReturnImageFilename ==
    /\ pc = "combined"
    /\ pc' = "saved"
    /\ obs_in' = NoObs
    /\ combined_img' = NoImage
    /\ config_unchanged
    /\ UNCHANGED <<rc_vars, fx_vars, lg_vars, absent_dirs, cursor, cur, image_file, label_in,
                   label_file, imagesTr, labelsTr, processed_cases,
                   dataset_json>>

\* line 534: nib.load or get_fdata of the label file raises
ProcessLabelRaises ==
    /\ pc = "saved"
    /\ cur.label_exists
    /\ pc' = "raised"
    /\ config_unchanged
    /\ UNCHANGED <<rc_vars, fx_vars, lg_vars, absent_dirs, cursor, cur, obs_in, combined_img,
                   image_file, label_in, label_file, imagesTr, labelsTr,
                   processed_cases, dataset_json>>

\* line 534: _process_label(case_id, category) maps and saves the label; it
\* returns None when the label file does not exist (lines 435-437)
ProcessLabel ==
    /\ pc = "saved"
    /\ IF ~cur.label_exists
       THEN UNCHANGED <<label_in, label_file, labelsTr>>
       ELSE \E vol \in LabelVolumes, cast \in CastBuilds :
              LET output_filename == OutputFilename(cur.case_id)
              IN  /\ label_in' = [vol |-> vol, cast |-> cast]
                  /\ label_file' = [name |-> output_filename,
                                    vol |-> MapLabel(vol, cur.category, cast)]
                  /\ labelsTr' =
                        [labelsTr EXCEPT ![output_filename] =
                            @ \cup {<<cur.category, cur.case_id>>}]
    /\ pc' = "labelled"
    /\ config_unchanged
    /\ UNCHANGED <<rc_vars, fx_vars, lg_vars, absent_dirs, cursor, cur, obs_in, combined_img,
                   image_file, imagesTr, processed_cases, dataset_json>>

\* lines 536-543: the record is appended when both file names are set
RecordCase ==
    /\ pc = "labelled"
    /\ processed_cases' =
          IF image_file.name # <<>> /\ label_file.name # <<>>
          THEN Append(processed_cases,
                      [case_id |-> cur.case_id,
                       category |-> cur.category,
                       modalities |->
                           SelectSeq(modality_mapping(processing_mode),
                                     LAMBDA m : m \in cur.modalities),
                       image_file |-> image_file.name,
                       label_file |-> label_file.name])
          ELSE processed_cases
    /\ EndIteration
    /\ config_unchanged
    /\ UNCHANGED <<rc_vars, fx_vars, lg_vars, absent_dirs, imagesTr, labelsTr, dataset_json>>

\* line 552: after the last case the dataset descriptor is written
CreateDatasetJson ==
    /\ pc = "loop"
    /\ cursor > Len(Cases)
    /\ dataset_json' = _create_dataset_json(processed_cases)
    /\ pc' = "done"
    /\ config_unchanged
    /\ UNCHANGED <<rc_vars, fx_vars, lg_vars, absent_dirs, cursor, cur, obs_in, combined_img,
                   image_file, label_in, label_file, imagesTr, labelsTr,
                   processed_cases>>

Next ==
    \/ SkipCategory
    \/ ValidateCase
    \/ SkipCase
    \/ CombineModalities
    \/ HandleException
    \/ ReturnImageFilename
    \/ ProcessLabelRaises
    \/ ProcessLabel
    \/ RecordCase
    \/ CreateDatasetJson

Spec == Init /\ [][Next]_vars

\* convert() is one sequential loop: no step of it waits for anything, so a
\* step that can be taken is taken
FairSpec == Spec /\ WF_vars(Next)

(***************************************************************************)
(* _resample_image on its own: one call, then a second call that takes the *)
(* result of the first back to the shape the caller started from           *)
(***************************************************************************)
\* the shapes of the volumes and targets of these calls
ReconcileShapes ==
    {<<1, 1, 1>>, <<2, 1, 1>>, <<3, 1, 1>>, <<1, 2, 1>>, <<2, 2, 1>>}

\* the voxel values of the volumes of these calls
ReconcileVals == {0, 2, 4}

ReconcileVolumes ==
    UNION {{[shape |-> sh, vox |-> x] : x \in [1..Size(sh) -> ReconcileVals]} :
            sh \in ReconcileShapes}

\* what a caller holds after an exception left the call
Raised == [shape |-> <<>>, vox |-> <<"exception">>]

\* whether _resample_image reaches the zoom call of line 138
CallsZoom(image_data, target_shape) == image_data.shape # target_shape

\* the converter is constructed, convert() is not running
RunIdle ==
    /\ processing_mode = "core_4"
    /\ pc = "idle"
    /\ cursor = 1
    /\ cur = NoCase
    /\ obs_in = NoObs
    /\ combined_img = NoImage
    /\ image_file = NoImageFile
    /\ label_in = NoLabelIn
    /\ label_file = NoLabelFile
    /\ imagesTr = [f \in FileNames |-> {}]
    /\ labelsTr = [f \in FileNames |-> {}]
    /\ processed_cases = <<>>
    /\ dataset_json = [written |-> FALSE, channel_names |-> <<>>, numTraining |-> 0]
    /\ absent_dirs = {}

ReconcileInit ==
    /\ RunIdle
    /\ FxIdle
    /\ LgIdle
    /\ rc_pc = "start"
    /\ rc_volume \in ReconcileVolumes
    /\ rc_target \in ReconcileShapes
    /\ rc_zoomed = <<>>
    /\ rc_result = None
    /\ rc_back = None

\* _resample_image(rc_volume, rc_target): the method reads image_data and
\* never writes to it
Reconcile ==
    /\ rc_pc = "start"
    /\ \E zoom_result \in {"ok", "raises"} :
          /\ rc_result' = _resample_image(rc_volume, rc_target, zoom_result)
          /\ rc_zoomed' = IF CallsZoom(rc_volume, rc_target)
                          THEN Append(rc_zoomed, zoom_result) ELSE rc_zoomed
    /\ rc_pc' = "reconciled"
    /\ UNCHANGED <<run_vars, fx_vars, lg_vars, rc_volume, rc_target, rc_back>>

\* _resample_image(rc_result, rc_volume.shape): when rc_result is None,
\* image_data.shape of line 128 raises AttributeError
ReconcileBack ==
    /\ rc_pc = "reconciled"
    /\ IF rc_result = None
       THEN /\ rc_back' = Raised
            /\ UNCHANGED rc_zoomed
       ELSE \E zoom_result \in {"ok", "raises"} :
              /\ rc_back' = _resample_image(rc_result, rc_volume.shape,
                                            zoom_result)
              /\ rc_zoomed' = IF CallsZoom(rc_result, rc_volume.shape)
                              THEN Append(rc_zoomed, zoom_result)
                              ELSE rc_zoomed
    /\ rc_pc' = "back"
    /\ UNCHANGED <<run_vars, fx_vars, lg_vars, rc_volume, rc_target, rc_result>>

ReconcileNext == Reconcile \/ ReconcileBack

SpecReconcile == ReconcileInit /\ [][ReconcileNext]_vars

(***************************************************************************)
(* _adjust_shape on its own: one call with a volume and a target shape     *)
(***************************************************************************)
\* _adjust_shape(rc_volume, rc_target): no interpolation takes place
AdjustShape ==
    /\ rc_pc = "start"
    /\ rc_result' = _adjust_shape(rc_volume, rc_target)
    /\ rc_pc' = "adjusted"
    /\ UNCHANGED <<run_vars, fx_vars, lg_vars, rc_volume, rc_target, rc_zoomed, rc_back>>

SpecAdjust == ReconcileInit /\ [][AdjustShape]_vars

(***************************************************************************)
(* The acceptance rule of the legacy converter (convert_script.py) next to *)
(* _validate_case_completeness, both given the files of one case           *)
(***************************************************************************)
\* missing_modalities of the legacy loop: a modality whose file does not
\* exist, cannot be loaded and saved, or is not a 3-D volume
LegacyMissing(exists, unreadable) ==
    {m \in Range(AllModalities) : m \notin exists \/ m \in unreadable}

\* label_found: the label file exists and was loaded and saved
label_found(label_exists, label_loads) == label_exists /\ label_loads

\* if label_found and len(missing_modalities) < 3
LegacyAccepts(exists, unreadable, label_exists, label_loads) ==
    /\ label_found(label_exists, label_loads)
    /\ Cardinality(LegacyMissing(exists, unreadable)) < 3

\* the cases: any set of modality files, any of them not loadable as a 3-D
\* volume, with or without a label file that loads or does not
LgCases ==
    {c \in [mode : Modes, exists : SUBSET Range(AllModalities),
            label_exists : BOOLEAN, unreadable : SUBSET Range(AllModalities),
            label_loads : BOOLEAN] :
        /\ c.unreadable \subseteq c.exists
        /\ c.label_loads => c.label_exists}

AcceptanceInit ==
    /\ RunIdle
    /\ RcIdle
    /\ FxIdle
    /\ lg_pc = "start"
    /\ lg_case \in LgCases
    /\ lg_is_valid = FALSE
    /\ lg_accepted = FALSE

\* both rules judge the case
JudgeCase ==
    /\ lg_pc = "start"
    /\ lg_is_valid' = _validate_case_completeness(lg_case.mode, lg_case.exists,
                                                  lg_case.label_exists).is_valid
    /\ lg_accepted' = LegacyAccepts(lg_case.exists, lg_case.unreadable,
                                    lg_case.label_exists, lg_case.label_loads)
    /\ lg_pc' = "judged"
    /\ UNCHANGED <<run_vars, rc_vars, fx_vars, lg_case>>

SpecAcceptance == AcceptanceInit /\ [][JudgeCase]_vars

(***************************************************************************)
(* fix_dataset_json (fix_dataset.py) on its own: the repair of a           *)
(* descriptor, applied twice                                               *)
(***************************************************************************)
\* the longest training list of a descriptor
MaxTraining == 3

\* the entries of a training list: two entries with the same image may
\* differ in their label
TrainingItems == [image : {"BPH_1", "PCA_1"}, label : {"l1", "l2"}]

TrainingLists == UNION {[1..n -> TrainingItems] : n \in 0..MaxTraining}

\* mutant: unique_training[identifier] = item for every item, the last entry
\* of an identifier replaces the first
RECURSIVE Mut_UniqueTraining_last(_, _, _)
Mut_UniqueTraining_last(training, i, unique_training) ==
    IF i > Len(training) THEN unique_training
    ELSE IF \E k \in 1..Len(unique_training) :
                unique_training[k].image = training[i].image
         THEN Mut_UniqueTraining_last(training, i + 1,
                [k \in 1..Len(unique_training) |->
                    IF unique_training[k].image = training[i].image
                    THEN training[i] ELSE unique_training[k]])
         ELSE Mut_UniqueTraining_last(training, i + 1,
                                      Append(unique_training, training[i]))

\* the loop of lines 22-28 from entry i on; unique_training is the dict, held
\* as the sequence of its values in insertion order (the key of a value is
\* its image)
RECURSIVE UniqueTraining(_, _, _)
UniqueTraining(training, i, unique_training) ==
    IF i > Len(training) THEN unique_training
    ELSE IF \E k \in 1..Len(unique_training) :
                unique_training[k].image = training[i].image
         THEN UniqueTraining(training, i + 1, unique_training)
         ELSE UniqueTraining(training, i + 1,
                             Append(unique_training, training[i]))

\* lines 31-32: the list replaces training, numTraining is its length
WithTraining(training) ==
    [training |-> training, numTraining |-> Len(training)]

fix_dataset_json(info) == WithTraining(UniqueTraining(info.training, 1, <<>>))

FixInit ==
    /\ RunIdle
    /\ RcIdle
    /\ LgIdle
    /\ fx_pc = "start"
    /\ fx_input \in [training : TrainingLists, numTraining : 0..MaxTraining]
    /\ fx_before = fx_input
    /\ dataset_info = fx_input

\* one run of fix_dataset.py on the descriptor: the first, then a second one
FixDatasetJson ==
    /\ fx_pc \in {"start", "fixed"}
    /\ fx_before' = dataset_info
    /\ dataset_info' = fix_dataset_json(dataset_info)
    /\ fx_pc' = IF fx_pc = "start" THEN "fixed" ELSE "fixed_twice"
    /\ UNCHANGED <<run_vars, rc_vars, lg_vars, fx_input>>

SpecFix == FixInit /\ [][FixDatasetJson]_vars

\* every weighted mean ZoomAxis takes along axis a is a whole number
ExactAxis(data, a, n) ==
    \A k \in 1..Size(ZoomShape(data.shape, a, n)) :
        LET c == Coord(ZoomShape(data.shape, a, n), k)
            num == c[a] * (data.shape[a] - 1)
            den == n - 1
        IN  (n > 1 /\ num % den # 0) =>
                (AtCoord(data, [c EXCEPT ![a] = num \div den]) * (den - (num % den))
                    + AtCoord(data, [c EXCEPT ![a] = (num \div den) + 1])
                        * (num % den)) % den = 0

ExactZoom(data, target_shape) ==
    /\ ExactAxis(data, 1, target_shape[1])
    /\ ExactAxis(ZoomAxis(data, 1, target_shape[1]), 2, target_shape[2])
    /\ ExactAxis(ZoomAxis(ZoomAxis(data, 1, target_shape[1]),
                          2, target_shape[2]), 3, target_shape[3])

\* the integer division of ZoomAxis loses nothing in the calls of
\* SpecReconcile: the volumes of ReconcileVolumes hold even values, and a
\* call halves the grid along at most one axis
ZoomExact ==
    /\ rc_pc # "idle" => ExactZoom(rc_volume, rc_target)
    /\ (rc_pc = "reconciled" /\ rc_result # None) =>
            ExactZoom(rc_result, rc_volume.shape)

(***************************************************************************)
(* Properties                                                              *)
(***************************************************************************)
CurCase == <<cur.category, cur.case_id>>

\* the current case has left nothing in the output of the run
NothingEmitted ==
    /\ \A i \in 1..Len(processed_cases) :
          <<processed_cases[i].category, processed_cases[i].case_id>> # CurCase
    /\ \A f \in FileNames : CurCase \notin imagesTr[f] /\ CurCase \notin labelsTr[f]

\* what the loop of _combine_modalities does for modality m of the current case
ChannelOf(m) ==
    IF m \in cur.modalities
    THEN PresentChannel(processing_mode, m, obs_in, combined_img.shape)
    ELSE MissingChannel(processing_mode, m, cur.modalities, obs_in,
                        combined_img.shape)

\* C1: every image volume that is saved has as many channels as the
\* ModalityMap of the processing mode has modalities (4 under core_4, 5 under
\* the other modes), whatever read or resampling failures occurred.
C1_ChannelCountIsModalityCount ==
    pc = "combined" =>
        Len(combined_img.channels) = Len(modality_mapping(processing_mode))

\* C2: when image and label of a case have been written, the shape of the
\* image volume equals the shape of the label volume.
C2_ImageAndLabelSameGrid ==
    (pc = "labelled" /\ label_file.name # <<>>) =>
        image_file.shape = label_file.vol.shape

\* C3: in the saved image, channel k carries the data of the k-th modality of
\* the ModalityMap: every channel of the image belongs to a modality that
\* contributed, and every modality that contributed (real, resampled,
\* zero-filled or synthesized data) is found at its own index.
C3_ChannelOrderIsModalityOrder ==
    pc = "combined" =>
        LET mapping == modality_mapping(processing_mode)
        IN  /\ \A k \in 1..Len(combined_img.channels) :
                  ~ChannelOf(mapping[k]).skip
            /\ \A k \in 1..Len(mapping) :
                  ~ChannelOf(mapping[k]).skip =>
                      /\ k <= Len(combined_img.channels)
                      /\ combined_img.channels[k] = ChannelOf(mapping[k]).data

\* C4: a case without a label file is rejected by the validator in every
\* processing mode; it is skipped, and neither a record nor a file of it is
\* emitted.
C4_NoLabelRejected ==
    (cur.case_id # 0 /\ ~cur.label_exists) =>
        /\ ~cur.is_valid
        /\ pc = "rejected"
        /\ NothingEmitted

\* C4 witness: a case with all five modality files and no label file has been
\* validated.
C4_Witness ==
    /\ cur.case_id # 0
    /\ ~cur.label_exists
    /\ cur.exists = Range(AllModalities)
    /\ pc = "rejected"

\* C5: under strict_5 a case that misses any of the five modalities is
\* rejected: it is skipped, and neither a record nor a file of it is emitted.
C5_Strict5RejectsMissing ==
    (processing_mode = "strict_5" /\ cur.case_id # 0
        /\ Range(AllModalities) \ cur.exists # {}) =>
        /\ ~cur.is_valid
        /\ pc = "rejected"
        /\ NothingEmitted

\* C5 witness: under strict_5 a labelled case that misses exactly one modality
\* has been validated.
C5_Witness ==
    /\ processing_mode = "strict_5"
    /\ cur.case_id # 0
    /\ cur.label_exists
    /\ Cardinality(Range(AllModalities) \ cur.exists) = 1
    /\ pc = "rejected"

\* C6: under core_4, zero_fill and similarity_fill a labelled case is accepted
\* by the validator exactly when its four core modalities are present,
\* whether or not gaoqing-T2 is; a labelled case that misses two of the four
\* core modalities is rejected under every mode.
C6_CoreFourRule ==
    (cur.case_id # 0 /\ cur.label_exists) =>
        /\ processing_mode # "strict_5" =>
              (cur.is_valid <=> core_modalities \subseteq cur.exists)
        /\ Cardinality(core_modalities \ cur.exists) = 2 => ~cur.is_valid
        /\ cur.is_valid <=> pc # "rejected"

\* C6 witness: under zero_fill a labelled case with the four core modalities
\* and without gaoqing-T2 has been accepted.
C6_Witness ==
    /\ processing_mode = "zero_fill"
    /\ cur.label_exists
    /\ cur.exists = core_modalities
    /\ cur.is_valid
    /\ pc = "valid"

\* every modality of the ModalityMap is present, is read without error and
\* has the shape of the image
AllPresentSameShape ==
    /\ cur.modalities = Range(modality_mapping(processing_mode))
    /\ \A m \in cur.modalities :
          obs_in[m].read = "ok" /\ obs_in[m].shape = combined_img.shape

\* C7 as stated: when all modalities are present with identical shapes, the
\* image has len(ModalityMap) channels and every channel equals the voxel
\* data of the file of the modality bound to its index.
C7_ChannelsEqualSource ==
    (pc = "combined" /\ AllPresentSameShape) =>
        LET mapping == modality_mapping(processing_mode)
        IN  /\ Len(combined_img.channels) = Len(mapping)
            /\ \A k \in 1..Len(mapping) :
                  combined_img.channels[k] =
                      SrcData(mapping[k], combined_img.shape)

\* C7 as amended: when all modalities are present with identical shapes, the
\* image has len(ModalityMap) channels and every channel equals the voxel
\* data of the file of its modality converted to 32-bit floating point.
C7_ChannelsEqualSourceAsFloat32 ==
    (pc = "combined" /\ AllPresentSameShape) =>
        LET mapping == modality_mapping(processing_mode)
        IN  /\ Len(combined_img.channels) = Len(mapping)
            /\ \A k \in 1..Len(mapping) :
                  combined_img.channels[k] =
                      AsFloat32(SrcData(mapping[k], combined_img.shape))

\* C7 witness: an image of five same-shaped, readable modalities is saved.
C7_Witness ==
    /\ pc = "combined"
    /\ AllPresentSameShape
    /\ Len(modality_mapping(processing_mode)) = 5

\* C8: under zero_fill a labelled case that misses exactly gaoqing-T2 is
\* accepted, and the channel of gaoqing-T2 in its image is all zero and has
\* the shape of the reference modality.
C8_ZeroFillOptional ==
    (processing_mode = "zero_fill" /\ cur.case_id # 0 /\ cur.label_exists
        /\ cur.exists = core_modalities) =>
        /\ cur.is_valid
        /\ pc = "combined" =>
              /\ Len(combined_img.channels) = 5
              /\ combined_img.shape = obs_in["ADC"].shape
              /\ combined_img.channels[5] = Zeros(obs_in["ADC"].shape)

\* C8 witness: under zero_fill the image of a case without gaoqing-T2 is
\* saved, its reference modality having the second shape.
C8_Witness ==
    /\ processing_mode = "zero_fill"
    /\ cur.label_exists
    /\ cur.exists = core_modalities
    /\ pc = "combined"
    /\ obs_in["ADC"].shape = <<2, 1, 1>>

\* C9: the written label volume holds the category code (BPH 1, PCA 2) at
\* exactly the voxels whose source value is positive and 0 elsewhere, for
\* every source value, fractional and beyond the uint8 range included.
C9_LabelIsCodeWherePositive ==
    (pc = "labelled" /\ label_file.name # <<>>) =>
        /\ label_file.vol.shape = label_in.vol.shape
        /\ \A i \in 1..Len(label_in.vol.vox) :
              label_file.vol.vox[i] =
                  IF label_in.vol.vox[i] > 0
                  THEN label_mapping(cur.category) ELSE 0

\* C10: no image file and no label file is written by two different cases
\* (category + case id) of one run.
C10_DisjointFilenames ==
    \A f \in FileNames :
        Cardinality(imagesTr[f]) <= 1 /\ Cardinality(labelsTr[f]) <= 1

\* C11: whenever a CaseRecord is appended, its modality list names every
\* modality whose own, resampled or synthesized data went into the image
\* (gaoqing-T2 included when it was synthesized) and names no modality that
\* the assembly skipped.
C11_RecordListsContributed ==
    [][Len(processed_cases') > Len(processed_cases) =>
          LET rec == processed_cases'[Len(processed_cases')]
          IN  /\ Range(image_file.contributed) \subseteq Range(rec.modalities)
              /\ Range(rec.modalities) \cap Range(image_file.skipped) = {}]_vars

\* C12 as stated: _resample_image returns a volume whose shape is the target
\* shape, for every volume and every target shape.
C12_ResultHasTargetShape ==
    rc_pc \in {"reconciled", "back"} =>
        rc_result # None /\ rc_result.shape = rc_target

\* C12 as amended: _resample_image returns a volume whose shape is the target
\* shape, except when the shapes differ and the interpolation raises: then
\* it returns None.
C12_ResultHasTargetShapeOrNone ==
    rc_pc \in {"reconciled", "back"} =>
        IF rc_zoomed # <<>> /\ rc_zoomed[1] = "raises"
        THEN rc_result = None
        ELSE rc_result # None /\ rc_result.shape = rc_target

\* C12 witness: a volume of two different voxels has been interpolated to a
\* shape with another extent on both of its first two axes.
C12_Witness ==
    /\ rc_pc = "reconciled"
    /\ rc_zoomed = <<"ok">>
    /\ rc_volume.shape = <<2, 2, 1>>
    /\ rc_target = <<3, 1, 1>>
    /\ rc_volume.vox[1] # rc_volume.vox[3]

\* C13: a call of _resample_image whose target shape is the shape of the
\* volume returns the values of the volume, calls no interpolation and leaves
\* the caller's volume as it was.
C13_SameShapeIsIdentity ==
    [][(rc_pc = "start" /\ rc_pc' = "reconciled"
            /\ rc_volume.shape = rc_target) =>
          /\ rc_result' = rc_volume
          /\ rc_zoomed' = <<>>
          /\ rc_volume' = rc_volume]_vars

\* C13 witness: a volume of different voxel values has been handed to
\* _resample_image with its own shape as target.
C13_Witness ==
    /\ rc_pc = "reconciled"
    /\ rc_volume.shape = rc_target
    /\ rc_target = <<2, 2, 1>>
    /\ ~IsUniform(rc_volume.vox)

T2Source(m) ==
    _resample_image(LoadData(m, obs_in), combined_img.shape, obs_in[m].zoom)

\* the image of the current case is saved, its gaoqing-T2 file is missing and
\* the mode is similarity_fill
OptionalMissingUnderSimilarityFill ==
    /\ processing_mode = "similarity_fill"
    /\ pc = "combined"
    /\ "gaoqing-T2" \notin cur.modalities

\* both T2 volumes were read and resampled, and the synthesizer was called
SynthesizerCalled ==
    /\ obs_in["T2 fs"].read = "ok" /\ obs_in["T2 not fs"].read = "ok"
    /\ T2Source("T2 fs") # None /\ T2Source("T2 not fs") # None

\* C15: every voxel of a synthesized gaoqing-T2 channel is a number between
\* the smallest and the largest voxel of the two volumes the synthesizer was
\* given, also when their blend is constant.
C15_SynthesisWithinEnvelope ==
    (OptionalMissingUnderSimilarityFill /\ SynthesizerCalled) =>
        LET A == T2Source("T2 fs").vox
            B == T2Source("T2 not fs").vox
        IN  \A i \in 1..Len(combined_img.channels[5]) :
                /\ combined_img.channels[5][i] # NaN
                /\ combined_img.channels[5][i] >= Min2(SeqMin(A), SeqMin(B))
                /\ combined_img.channels[5][i] <= Max2(SeqMax(A), SeqMax(B))

\* _combine_modalities left by an exception: no image was written
CombineRaised == pc = "raised" /\ image_file.name = <<>>

\* C16: under similarity_fill, for an accepted case without gaoqing-T2 file,
\* the fifth channel is what the synthesizer returned when both T2 volumes
\* were read and resampled, and all zero when reading or resampling one of
\* them failed; the assembly of such a case is left by an exception only when
\* the reference modality cannot be opened.
C16_SynthesizedOrZero ==
    (processing_mode = "similarity_fill" /\ cur.is_valid
        /\ "gaoqing-T2" \notin cur.modalities) =>
        /\ pc = "combined" =>
              /\ Len(combined_img.channels) = 5
              /\ combined_img.channels[5] =
                    IF SynthesizerCalled
                    THEN _similarity_fill_gaoqing_t2(
                            T2Source("T2 fs"), T2Source("T2 not fs")).vox
                    ELSE Zeros(combined_img.shape)
        /\ CombineRaised => obs_in["ADC"].read = "load_raises"

\* C16 witness: under similarity_fill an image without gaoqing-T2 file is
\* saved after the resampling of 'T2 fs' raised.
C16_Witness ==
    /\ OptionalMissingUnderSimilarityFill
    /\ obs_in["T2 fs"].read = "ok"
    /\ obs_in["T2 fs"].shape # combined_img.shape
    /\ obs_in["T2 fs"].zoom = "raises"

\* m is the one modality of the current case whose file cannot be read
OnlyUnreadable(m) ==
    /\ pc = "combined" \/ CombineRaised
    /\ m \in cur.modalities
    /\ obs_in[m].read # "ok"
    /\ \A x \in cur.modalities \ {m} : obs_in[x].read = "ok"

\* C17: when the file of one modality of a case cannot be read (the
\* reference modality included), the case is assembled as the mode assembles
\* a case that misses that modality: under zero_fill and similarity_fill the
\* image is saved, and the channel of the modality is all zero or the channel
\* the mode gives the modality when its file is missing; under core_4 and
\* strict_5 the modality is skipped or the case is dropped; and the run
\* visits every case before it writes the descriptor.
C17_ReadFailureAsMissing ==
    /\ \A m \in cur.modalities :
          OnlyUnreadable(m) =>
              IF zero_fill_missing(processing_mode)
              THEN /\ pc = "combined"
                   /\ combined_img.channels[ModalityIndex(m)] \in
                         {Zeros(combined_img.shape),
                          MissingChannel(processing_mode, m,
                                         cur.modalities \ {m}, obs_in,
                                         combined_img.shape).data}
              ELSE CombineRaised \/ m \in Range(image_file.skipped)
    /\ pc = "done" => cursor = Len(Cases) + 1

\* m is a readable modality of the current case whose shape is not the
\* reference shape, the reference modality can be opened, and no other
\* modality of the case is skipped
OnlyMismatch(m) ==
    /\ pc = "combined" \/ CombineRaised
    /\ m \in cur.modalities
    /\ obs_in[m].read = "ok"
    /\ obs_in[m].shape # obs_in["ADC"].shape
    /\ obs_in["ADC"].read # "load_raises"
    /\ Range(Skipped(processing_mode, cur.modalities, obs_in,
                     obs_in["ADC"].shape)) \subseteq {m}

C19_ChannelNamesAreModalityMap ==
    (pc = "done" /\ processed_cases # <<>>) =>
        dataset_json.channel_names = modality_mapping(processing_mode)

\* the cases of the run for which an image file and a label file were written
CasesWithImageAndLabel ==
    UNION {imagesTr[f] \cap labelsTr[f] : f \in FileNames}

\* C20: numTraining of the descriptor is the number of cases of the run for
\* which both an image and a label were written; rejected cases and cases
\* whose processing raised are not counted.
C20_NumTrainingCountsRecords ==
    pc = "done" =>
        /\ dataset_json.numTraining = Len(processed_cases)
        /\ dataset_json.numTraining = Cardinality(CasesWithImageAndLabel)

\* C20 witness: the descriptor of a run that recorded one of its cases and
\* wrote no image for the others is written.
C20_Witness ==
    /\ pc = "done"
    /\ dataset_json.numTraining = 1
    /\ \E f \in FileNames : Cardinality(imagesTr[f]) = 1

\* C21: an absent case tree aborts the run: when the directory of a category
\* (or the source root, which holds both) does not exist, the run stops and
\* no dataset descriptor is written
C21_AbsentTreeAbortsRun ==
    absent_dirs # {} => ~dataset_json.written

\* C22: a CaseRecord is appended only for a case whose saved image holds at
\* least min_modalities channels (4 under core_4, zero_fill and
\* similarity_fill, 5 under strict_5): a case that skipped modalities leave
\* with fewer channels is rejected.
C22_NoRecordBelowMinimum ==
    [][Len(processed_cases') > Len(processed_cases) =>
          image_file.num_channels >= min_modalities(processing_mode)]_vars

\* where entry 0 of the result may lie on an axis of the input: a crop
\* aligned at the centre removes half of the excess at the start (the odd
\* voxel at either end), padding adds zeros around the input
AlignedStarts(current, target) ==
    IF current > target
    THEN {(current - target) \div 2, (current - target + 1) \div 2}
    ELSE {0 - k : k \in 0..(target - current)}

\* whether result is data cut or padded to its shape, entry 0 of the result
\* lying at coordinates start of data
CutOrPaddedAt(result, data, start) ==
    \A n \in 1..Size(result.shape) :
        LET c == Coord(result.shape, n)
            inside == \A i \in 1..3 : /\ c[i] + start[i] >= 0
                                       /\ c[i] + start[i] < data.shape[i]
        IN  result.vox[n] =
                IF inside
                THEN AtCoord(data, [i \in 1..3 |-> c[i] + start[i]])
                ELSE 0

FirstAvailable ==
    LET mm == modality_mapping(processing_mode)
    IN  mm[CHOOSE k \in 1..Len(mm) :
              /\ mm[k] \in cur.modalities
              /\ \A j \in 1..(k - 1) : mm[j] \notin cur.modalities]

\* C24: the image that is saved has the affine of the first modality of the
\* ModalityMap that is available for the case, and the shape of that
\* modality's volume is the shape of the image and of every channel of it.
C24_ReferenceIsFirstAvailable ==
    pc = "combined" =>
        /\ combined_img.affine = FirstAvailable
        /\ combined_img.shape = obs_in[FirstAvailable].shape
        /\ \A k \in 1..Len(combined_img.channels) :
                Len(combined_img.channels[k]) = Size(obs_in[FirstAvailable].shape)

\* an image was saved for a case whose first modality has another shape than
\* its second modality
C24_Witness ==
    /\ pc = "combined"
    /\ obs_in["ADC"].shape = <<2, 1, 1>>
    /\ obs_in["DWI"].shape = <<1, 1, 1>>
    /\ Len(combined_img.channels) >= 4

\* missing_modalities of _combine_modalities for the case being assembled
FillAudit ==
    _combine_modalities(processing_mode, cur.modalities,
                        obs_in).missing_modalities

\* the modalities whose channel of the saved image holds zeros written as a
\* fill, or the blend of the two T2 volumes, instead of the data of a file of
\* the modality
FilledChannels ==
    {m \in Range(modality_mapping(processing_mode)) :
        \E r \in {LoopBody(processing_mode, m, cur.modalities, obs_in,
                           combined_img.shape)} :
            ~r.skip /\ (r.fill \/ m \notin cur.modalities)}

\* C25: when the image of a case is saved, the fill audit list of the case
\* holds exactly the modalities whose channel was zero-filled or
\* similarity-filled, a successfully synthesized channel included.
C25_FillAuditListsFilled ==
    pc = "combined" => Range(FillAudit) = FilledChannels

\* C26: the loop never goes back to a case; the validator is given the case
\* at the cursor, and every iteration, however it ends (rejected, failed or
\* recorded), moves the cursor to the next case; a case is assembled only
\* after the validator accepted it; the descriptor is written only after the
\* last case, and the run does reach that step.
C26_EachCaseOnceThenDescriptor ==
    /\ [][/\ cursor' >= cursor
          /\ (pc = "loop" /\ pc' \in {"valid", "rejected"}) =>
                /\ <<cur'.category, cur'.case_id>> = Cases[cursor]
                /\ cursor' = cursor
          /\ (pc # "loop" /\ pc' = "loop") => cursor' = cursor + 1
          /\ (pc' = "combined" /\ pc # "combined") =>
                pc = "valid" /\ cur.is_valid
          /\ imagesTr' # imagesTr => pc = "valid" /\ cur.is_valid
          /\ (pc' = "done" /\ pc # "done") => cursor > Len(Cases)]_vars
    /\ <>(pc = "done" /\ dataset_json.written)

\* the descriptor was written after a run in which both categories were there,
\* one case was recorded and the other was rejected or failed
C26_Witness ==
    /\ pc = "done"
    /\ absent_dirs = {}
    /\ Len(processed_cases) = 1

\* C27: no step of a run (validating, assembling, rejecting or recording a
\* case, skipping a category, writing the descriptor) changes the processing
\* mode, and with it the modality map, the fill flags, the minimum count and
\* the label codes that the constructor derived from it.
C27_ModeFixedDuringRun ==
    [][/\ processing_mode' = processing_mode
       /\ modality_mapping(processing_mode') = modality_mapping(processing_mode)
       /\ zero_fill_missing(processing_mode') = zero_fill_missing(processing_mode)
       /\ similarity_fill(processing_mode') = similarity_fill(processing_mode)
       /\ min_modalities(processing_mode') = min_modalities(processing_mode)]_vars

\* a run under a mode other than the default has rejected a case, assembled
\* another one and written the descriptor
C27_Witness ==
    /\ processing_mode = "strict_5"
    /\ pc = "done"
    /\ absent_dirs = {}
    /\ Len(processed_cases) = 1
    /\ \E f \in FileNames : Cardinality(imagesTr[f]) = 1

\* C28 as stated: every case the completeness validator accepts, in any
\* mode, is a case the legacy converter accepts.
C28_AcceptedImpliesLegacy ==
    (lg_pc = "judged" /\ lg_is_valid) => lg_accepted

\* C28: every case the completeness validator accepts, in any mode, and
\* whose existing files all load as 3-D volumes, is a case the legacy
\* converter accepts.
C28_AcceptedReadableImpliesLegacy ==
    (/\ lg_pc = "judged"
     /\ lg_is_valid
     /\ lg_case.unreadable = {}
     /\ lg_case.label_loads) => lg_accepted

\* both rules accepted a case of which one modality is missing
C28_Witness ==
    /\ lg_pc = "judged"
    /\ lg_is_valid
    /\ lg_accepted
    /\ lg_case.unreadable = {}
    /\ lg_case.exists = core_modalities

\* C29: at the end of a run every case that wrote an image file has written
\* a label file too and has a CaseRecord in processed_cases: a case whose
\* label processing fails after the image was saved leaves no image behind.
C29_EmissionAllOrNothing ==
    pc = "done" =>
        \A f \in FileNames : \A c \in imagesTr[f] :
            /\ c \in labelsTr[f]
            /\ \E i \in 1..Len(processed_cases) :
                  /\ processed_cases[i].category = c[1]
                  /\ processed_cases[i].case_id = c[2]

\* the entries of a list that are the first of their image, in list order
FirstOccurrences(training) ==
    LET first == {i \in 1..Len(training) :
                    \A j \in 1..(i - 1) : training[j].image # training[i].image}
        nth(n) == CHOOSE i \in first : Cardinality({j \in first : j < i}) = n - 1
    IN  [n \in 1..Cardinality(first) |-> training[nth(n)]]

\* C30: after the repair the training list holds one entry per image, the
\* first entry of each image in the order the images first occur,
\* numTraining is the length of the list, and a second repair changes
\* nothing.
C30_RepairKeepsFirstAndIsIdempotent ==
    /\ fx_pc = "fixed" =>
          /\ dataset_info.training = FirstOccurrences(fx_input.training)
          /\ \A i, j \in 1..Len(dataset_info.training) :
                dataset_info.training[i].image = dataset_info.training[j].image
                    => i = j
          /\ dataset_info.numTraining = Len(dataset_info.training)
    /\ fx_pc = "fixed_twice" => dataset_info = fx_before

\* a descriptor with an image listed twice under different labels, followed
\* by another image, was repaired twice
C30_Witness ==
    /\ fx_pc = "fixed_twice"
    /\ Len(fx_input.training) = 3
    /\ fx_input.training[1].image = fx_input.training[2].image
    /\ fx_input.training[1].label # fx_input.training[2].label
    /\ fx_input.training[3].image # fx_input.training[1].image
    /\ fx_input.numTraining = 3
    /\ dataset_info.numTraining = 2

====
